---- MODULE Spec2Model ----
(***************************************************************************)
(* Model of the JNI entry points of AudioCoder/src/main/jni/libloud.cpp.   *)
(*                                                                         *)
(* Every entry point is synchronous and keeps no state between calls, so   *)
(* one action is one whole call: it draws the arguments (and the outcome   *)
(* of every allocation the call makes), and leaves in the variables the    *)
(* arguments, the locals and the return value the call ended with.         *)
(*                                                                         *)
(* A double is a record [cls, v, d]: cls "fin" is the value v / d, "inf"   *)
(* is +-infinity (sign v), "nan" is NaN.  Degrees use d = One.  The        *)
(* arguments are drawn from a grid (multiples of 5 and 2.5 degrees) on     *)
(* which every IEEE-754 operation of the grid-square transform is exact,   *)
(* so the integer arithmetic below is the arithmetic of the code.          *)
(***************************************************************************)
EXTENDS Integers, Sequences, FiniteSets

VARIABLES
    fn,          \* native entry point whose frame is live ("none": in Java)
    outcome,     \* "none" | "returned" | "crashed"
    exception,   \* Java exception pending at return: "none" or its message
    retNull,     \* the call returned NULL
    lat,         \* WSPRLatLonToGSQ: parameter lat
    lonIn,       \* WSPRLatLonToGSQ: parameter lon as passed
    lon,         \* WSPRLatLonToGSQ: lon after lines 259-263
    yn,          \* WSPRLatLonToGSQ: the ten extracted digits
    result,      \* returned characters (GSQ) or bytes (frequencies)
    msg,         \* encoders: the (callsign, locator, power) message
    j_offset,    \* encoders: frequency offset in Hz
    lsb_mod,     \* encoders: LSB flag
    encoded,     \* encoders: symbols as LB_WSPR_Encode2symbolz wrote them
    symbols,     \* encoders: symbols as used for the tones
    amp,         \* WSPREncodeToPCM: amplitude of the sine
    sound,       \* WSPREncodeToPCM: per symbol, the tone of its 8192 samples
    retLen,      \* WSPREncodeToPCM: length in bytes of the returned array
    frequencies, \* WSPREncodeToFrequencies: the int64 array
    len,         \* WSPRDecodeFromPcm: length of the Java byte array
    utfLive,     \* GetStringUTFChars handles not released at return
    nativeLive,  \* malloc/new buffers of the call not released at return
    nullUse      \* a buffer was used after its allocation failed

vars == <<fn, outcome, exception, retNull, lat, lonIn, lon, yn, result, msg,
          j_offset, lsb_mod, encoded, symbols, amp, sound, retLen, frequencies,
          len, utfLive, nativeLive, nullUse>>

(***************************************************************************)
(* Bounds of the model.                                                    *)
(***************************************************************************)
MaxLatK == 19      \* lat ranges over 5-degree steps up to +-95
MaxLonK == 241     \* lon ranges over 2.5-degree steps up to +-602.5
MaxOffsetK == 2    \* j_offset ranges over 751 Hz steps up to +-1502
NumMsgs == 8       \* distinct messages handed to the encoder
MaxLen == 2        \* length of the byte array handed to the decoder

(***************************************************************************)
(* Doubles.                                                                *)
(***************************************************************************)
One == 1000000

Fin(v) == [cls |-> "fin", v |-> v, d |-> One]
Inf(s) == [cls |-> "inf", v |-> s, d |-> 1]
NaN == [cls |-> "nan", v |-> 0, d |-> 1]

isnan(x) == x.cls = "nan"

\* abs on a double (the <math.h> overload)
abs(x) == IF x.cls = "nan" THEN x ELSE [x EXCEPT !.v = IF x.v < 0 THEN -x.v ELSE x.v]

\* x >= n, x < n, x > n for a double x and a whole number n; false on NaN
GeqInt(x, n) ==
    \/ x.cls = "inf" /\ x.v > 0
    \/ x.cls = "fin" /\ x.v >= n * x.d

LtInt(x, n) ==
    \/ x.cls = "inf" /\ x.v < 0
    \/ x.cls = "fin" /\ x.v < n * x.d

GtInt(x, n) ==
    \/ x.cls = "inf" /\ x.v > 0
    \/ x.cls = "fin" /\ x.v > n * x.d

\* x + n for a whole number n
AddInt(x, n) == IF x.cls = "fin" THEN [x EXCEPT !.v = x.v + n * x.d] ELSE x

floor(a, b) == a \div b
ceil(a, b) == -((-a) \div b)

(***************************************************************************)
(* WSPRLatLonToGSQ, libloud.cpp:243-301                                    *)
(***************************************************************************)
\* ydiv_arr: the divisor n / (m * One).  1 / 240 and 1 / 240 / 24 are
\* integer divisions, so the last two divisors are 0.
ydiv_arr ==
    << [n |-> 10 * One, m |-> 1],
       [n |-> One, m |-> 1],
       [n |-> 2083333, m |-> 50000000 \div One],
       [n |-> 0, m |-> 1],
       [n |-> 0, m |-> 1] >>

\* yres = ycalc / ydiv with a zero divisor
DivByZero(x) ==
    IF x.cls = "fin"
    THEN IF x.v > 0 THEN Inf(1) ELSE IF x.v < 0 THEN Inf(-1) ELSE NaN
    ELSE x

\* One pass of the inner loop body, lines 275-286: the digit ylp and the
\* new ycalc[yi].
DigitStep(ycalc, ydiv) ==
    IF ydiv.n = 0 \/ ycalc.cls # "fin"
    THEN LET yres == IF ydiv.n = 0 THEN DivByZero(ycalc) ELSE ycalc
         IN  [ylp |-> yres, ycalc |-> NaN]
    ELSE LET k == ycalc.d \div One
             num == ycalc.v * ydiv.m
             den == k * ydiv.n
             ylp == IF num > 0 THEN floor(num, den) ELSE ceil(num, den)
         IN  [ylp |-> [cls |-> "fin", v |-> ylp, d |-> 1],
              ycalc |-> [cls |-> "fin", v |-> num - ylp * den, d |-> k * ydiv.m * One]]

\* The five passes of the inner loop for one coordinate: its five digits.
RECURSIVE Digits(_, _)
Digits(ycalc, yk) ==
    IF yk > 5 THEN <<>>
    ELSE LET s == DigitStep(ycalc, ydiv_arr[yk])
         IN  <<s.ylp>> \o Digits(s.ycalc, yk + 1)

\* lines 259-263
NormalizeLon(x) ==
    LET a == IF LtInt(x, -180) THEN AddInt(x, 360) ELSE x
    IN  IF GtInt(a, 180) THEN AddInt(a, -360) ELSE a

\* lines 270-271
Ycalc0(la) == [la EXCEPT !.v = (la.v + 180 * One) \div 2]
Ycalc1(lo) == AddInt(lo, 90)

\* yn[2 * yk + yi] = ylp, lines 273-288 (indices from 1 here)
YnOf(la, lo) ==
    LET d0 == Digits(Ycalc0(la), 1)
        d1 == Digits(Ycalc1(lo), 1)
    IN  [j \in 1..10 |-> IF j % 2 = 1 THEN d0[(j + 1) \div 2] ELSE d1[j \div 2]]

\* lines 291-298: the six characters, as character codes
CharA == 65
Char0 == 48
Chara == 97

ResultOf(y) ==
    << y[1].v + CharA, y[2].v + CharA, y[3].v + Char0,
       y[4].v + Char0, y[5].v + Chara, y[6].v + Chara >>

\* the pole check with > in place of >=
PoleCheckStrict(la) == GtInt(abs(la), 90)

\* line 252
PoleCheck(la) == GeqInt(abs(la), 90)

LatInputs == {Fin(5 * One * k) : k \in -MaxLatK..MaxLatK} \cup {NaN, Inf(1), Inf(-1)}
LonInputs == {Fin((5 * One * k) \div 2) : k \in -MaxLonK..MaxLonK} \cup {NaN}

ClearGsq ==
    /\ lat' = NaN
    /\ lonIn' = NaN
    /\ lon' = NaN
    /\ yn' = <<>>

ClearEnc ==
    /\ msg' = 0
    /\ j_offset' = 0
    /\ lsb_mod' = FALSE
    /\ encoded' = <<>>
    /\ symbols' = <<>>
    /\ amp' = 0
    /\ sound' = <<>>
    /\ retLen' = 0
    /\ frequencies' = <<>>

WSPRLatLonToGSQ ==
    /\ fn = "none"
    /\ \E la \in LatInputs, lo \in LonInputs :
        /\ fn' = "WSPRLatLonToGSQ"
        /\ outcome' = "returned"
        /\ lat' = la
        /\ lonIn' = lo
        /\ IF isnan(la) \/ isnan(lo)
           THEN /\ exception' = "Latitude or longitude is NaN!"
                /\ retNull' = TRUE
                /\ lon' = lo
                /\ yn' = <<>>
                /\ result' = <<>>
           ELSE IF PoleCheck(la)
           THEN /\ exception' = "Latitude is >= +-90 deg. Grid sq. doesn't work on poles."
                /\ retNull' = TRUE
                /\ lon' = lo
                /\ yn' = <<>>
                /\ result' = <<>>
           ELSE /\ exception' = "none"
                /\ retNull' = FALSE
                /\ lon' = NormalizeLon(lo)
                /\ yn' = YnOf(la, NormalizeLon(lo))
                /\ result' = ResultOf(YnOf(la, NormalizeLon(lo)))
    /\ ClearEnc
    /\ len' = 0
    /\ utfLive' = 0
    /\ nativeLive' = 0
    /\ nullUse' = FALSE

(***************************************************************************)
(* The encoders, libloud.cpp:15-190                                        *)
(***************************************************************************)
WSPR_SYMBOL_COUNT == 162
WSPR_SYMBOL_LENGTH == 8192
SizeofShort == 2
SizeofInt64 == 8

\* Frequencies in Hz are whole multiples of 1 / HzScale.
HzScale == 10000

\* LB_WSPR_Encode2symbolz (lbenc2/wenc.h): 162 symbols in 0..3 that depend
\* on the message only.
Encode2symbolz(m) ==
    [i \in 1..WSPR_SYMBOL_COUNT |-> ((m \div 4 + 1) * i + m) % 4]

\* no inversion of the symbol in LSB mode
LsbInvertPcmNone(s) == s

\* line 53: symbols[i] = (uint8_t) 3 - symbols[i], stored in a uint8_t
LsbInvertPcm(s) == (3 - s) % 256

\* line 58: 1500 + ((int) j_offset) + symbols[i] * 1.4548
PcmFrequency(off, s) == (1500 + off) * HzScale + s * 14548

\* lines 49 and 65: double amp = volume >> 2
volume == 16383
AmpOf(vol) == vol \div 4

\* the length counted in samples, not in bytes
PcmRetLengthInSamples == WSPR_SYMBOL_COUNT * WSPR_SYMBOL_LENGTH

\* lines 76-77: length in bytes of the returned array
PcmRetLength == WSPR_SYMBOL_COUNT * WSPR_SYMBOL_LENGTH * SizeofShort

\* line 148: symbol = (uint8_t) (3 - symbol)
LsbInvertFreq(s) == (3 - s) % 256

\* line 155: 1500.0 + ((double) j_offset) + (symbol * 1.4648)
FrequencyHz(off, s) == (1500 + off) * HzScale + s * 14648

\* the conversion rounding to the nearest integer instead
CastInt64Nearest(f) ==
    LET den == HzScale \div 100
    IN  IF f >= 0 THEN (2 * f + den) \div (2 * den) ELSE -((den - 2 * f) \div (2 * den))

\* line 158: (int64_t) (frequency_hz * 100.0), a conversion that truncates
\* toward zero; f * 100 / HzScale is f / (HzScale / 100)
CastInt64(f) ==
    LET den == HzScale \div 100
    IN  IF f >= 0 THEN f \div den ELSE -((-f) \div den)

\* line 129
FREQUENCY_ARRAY_SIZE == WSPR_SYMBOL_COUNT * SizeofInt64

\* Byte k (0 the least significant) of the two's complement int64 v, for
\* |v| < 2^31: the upper four bytes are the sign extension.
Int64Byte(v, k) ==
    IF k < 4 THEN (v \div (256 ^ k)) % 256 ELSE IF v < 0 THEN 255 ELSE 0

\* line 180: SetByteArrayRegion copies the int64 array as it lies in memory;
\* on every Android ABI the least significant byte comes first.
MemoryBytes(v) == [k \in 1..SizeofInt64 |-> Int64Byte(v, k - 1)]

RegionBytes(fs, size) ==
    [j \in 1..size |->
        MemoryBytes(fs[(j - 1) \div SizeofInt64 + 1])[((j - 1) % SizeofInt64) + 1]]

Offsets == {751 * k : k \in -MaxOffsetK..MaxOffsetK}
Msgs == 0..(NumMsgs - 1)

WSPREncodeToPCM ==
    /\ fn = "none"
    /\ \E m \in Msgs, off \in Offsets, lsb \in BOOLEAN,
          mallocOk \in BOOLEAN, newArrayOk \in BOOLEAN, survives \in BOOLEAN :
        LET enc == Encode2symbolz(m)
            syms == [i \in 1..WSPR_SYMBOL_COUNT |->
                        IF lsb THEN LsbInvertPcm(enc[i]) ELSE enc[i]]
        IN
        /\ fn' = "WSPREncodeToPCM"
        /\ msg' = m
        /\ j_offset' = off
        /\ lsb_mod' = lsb
        /\ encoded' = enc
        /\ utfLive' = 0
        /\ frequencies' = <<>>
        /\ result' = <<>>
        /\ IF ~mallocOk
           THEN \* line 44: memset on the NULL that malloc returned
                /\ nullUse' = TRUE
                /\ outcome' = "crashed"
                /\ symbols' = enc
                /\ amp' = 0
                /\ sound' = <<>>
                /\ retLen' = 0
                /\ retNull' = TRUE
                /\ exception' = "none"
                /\ nativeLive' = 0
           ELSE /\ symbols' = syms
                /\ amp' = AmpOf(volume)
                /\ sound' = [i \in 1..WSPR_SYMBOL_COUNT |-> PcmFrequency(off, syms[i])]
                /\ IF newArrayOk
                   THEN /\ nullUse' = FALSE
                        /\ outcome' = "returned"
                        /\ retLen' = PcmRetLength
                        /\ retNull' = FALSE
                        /\ exception' = "none"
                        /\ nativeLive' = 0
                   ELSE \* line 77: SetByteArrayRegion on the NULL array, with
                        \* the OutOfMemoryError pending
                        /\ nullUse' = TRUE
                        /\ retLen' = 0
                        /\ retNull' = TRUE
                        /\ exception' = "java.lang.OutOfMemoryError"
                        /\ IF survives
                           THEN outcome' = "returned" /\ nativeLive' = 0
                           ELSE outcome' = "crashed" /\ nativeLive' = 1
    /\ ClearGsq
    /\ len' = 0

WSPREncodeToFrequencies ==
    /\ fn = "none"
    /\ \E m \in Msgs, off \in Offsets, lsb \in BOOLEAN,
          mallocOk \in BOOLEAN, newArrayOk \in BOOLEAN :
        LET enc == Encode2symbolz(m)
            syms == [i \in 1..WSPR_SYMBOL_COUNT |->
                        IF lsb THEN LsbInvertFreq(enc[i]) ELSE enc[i]]
            freqs == [i \in 1..WSPR_SYMBOL_COUNT |-> CastInt64(FrequencyHz(off, syms[i]))]
        IN
        /\ fn' = "WSPREncodeToFrequencies"
        /\ outcome' = "returned"
        /\ msg' = m
        /\ j_offset' = off
        /\ lsb_mod' = lsb
        /\ encoded' = enc
        /\ utfLive' = 0
        /\ amp' = 0
        /\ sound' = <<>>
        /\ retLen' = 0
        /\ nullUse' = FALSE
        /\ nativeLive' = 0
        /\ IF ~mallocOk
           THEN \* lines 132-138
                /\ symbols' = enc
                /\ frequencies' = <<>>
                /\ result' = <<>>
                /\ retNull' = TRUE
                /\ exception' = "none"
           ELSE /\ symbols' = syms
                /\ frequencies' = freqs
                /\ IF newArrayOk
                   THEN /\ result' = RegionBytes(freqs, FREQUENCY_ARRAY_SIZE)
                        /\ retNull' = FALSE
                        /\ exception' = "none"
                   ELSE \* lines 170-177
                        /\ result' = <<>>
                        /\ retNull' = TRUE
                        /\ exception' = "java.lang.OutOfMemoryError"
    /\ ClearGsq
    /\ len' = 0

(***************************************************************************)
(* WSPRDecodeFromPcm, libloud.cpp:202-223                                  *)
(***************************************************************************)
\* as_unsigned_char_array allocates with new[]; nothing in this file deletes
\* the buffer, and jani_do_process (not in this file) may or may not.
WSPRDecodeFromPcm ==
    /\ fn = "none"
    /\ \E n \in 0..MaxLen, newOk \in BOOLEAN, calleeFrees \in BOOLEAN :
        /\ fn' = "WSPRDecodeFromPcm"
        /\ len' = n
        /\ IF newOk
           THEN /\ outcome' = "returned"
                /\ nativeLive' = IF calleeFrees THEN 0 ELSE 1
           ELSE \* std::bad_alloc leaves the native frame
                /\ outcome' = "crashed"
                /\ nativeLive' = 0
        /\ retNull' = ~newOk
    /\ exception' = "none"
    /\ result' = <<>>
    /\ utfLive' = 0
    /\ nullUse' = FALSE
    /\ ClearGsq
    /\ ClearEnc

Init ==
    /\ fn = "none"
    /\ outcome = "none"
    /\ exception = "none"
    /\ retNull = FALSE
    /\ lat = NaN
    /\ lonIn = NaN
    /\ lon = NaN
    /\ yn = <<>>
    /\ result = <<>>
    /\ msg = 0
    /\ j_offset = 0
    /\ lsb_mod = FALSE
    /\ encoded = <<>>
    /\ symbols = <<>>
    /\ amp = 0
    /\ sound = <<>>
    /\ retLen = 0
    /\ frequencies = <<>>
    /\ len = 0
    /\ utfLive = 0
    /\ nativeLive = 0
    /\ nullUse = FALSE

\* Control is back in the Java caller: the frame of the native call is gone.
Return ==
    /\ outcome = "returned"
    /\ fn' = "none"
    /\ outcome' = "none"
    /\ exception' = "none"
    /\ retNull' = FALSE
    /\ result' = <<>>
    /\ ClearGsq
    /\ ClearEnc
    /\ len' = 0
    /\ utfLive' = 0
    /\ nativeLive' = 0
    /\ nullUse' = FALSE

Next ==
    \/ WSPREncodeToPCM
    \/ WSPREncodeToFrequencies
    \/ WSPRDecodeFromPcm
    \/ WSPRLatLonToGSQ
    \/ Return

(***************************************************************************)
(* Properties.                                                             *)
(***************************************************************************)
IsFinite(x) == x.cls = "fin"

\* |x| < n and |x| >= n for a double x and a whole number of degrees n
AbsBelow(x, n) == IsFinite(x) /\ -(n * One) < x.v /\ x.v < n * One
AbsAtLeast(x, n) == x.cls = "inf" \/ (IsFinite(x) /\ (x.v >= n * One \/ x.v <= -(n * One)))

GsqDone == fn = "WSPRLatLonToGSQ"
PcmDone == fn = "WSPREncodeToPCM"
FreqDone == fn = "WSPREncodeToFrequencies"

\* C1: for finite lat and lon with |lat| < 90 the returned locator has exactly
\* 6 characters, the first two in 'A'..'R', the next two in '0'..'9', the last
\* two in 'a'..'x'.  Stated here for the longitudes of [-180, 180) alone, where
\* no normalization is involved.
C1_LocatorAlphabet ==
    (GsqDone /\ AbsBelow(lat, 90) /\ IsFinite(lonIn)
        /\ lonIn.v >= -(180 * One) /\ lonIn.v < 180 * One) =>
        /\ ~retNull
        /\ Len(result) = 6
        /\ \A j \in {1, 2} : result[j] \in 65..82
        /\ \A j \in {3, 4} : result[j] \in 48..57
        /\ \A j \in {5, 6} : result[j] \in 97..120

\* C2: the call raises an exception and returns no string whenever lat or lon
\* is NaN or |lat| >= 90, and returns a string without raising for every other
\* input with finite lat and lon.
C2_FailsExactlyOnNaNOrPole ==
    GsqDone =>
        /\ (isnan(lat) \/ isnan(lonIn) \/ AbsAtLeast(lat, 90)) =>
               (exception # "none" /\ retNull /\ result = <<>>)
        /\ (IsFinite(lonIn) /\ AbsBelow(lat, 90)) =>
               (exception = "none" /\ ~retNull /\ Len(result) > 0)

\* C2 witness: latitude exactly -90 with a finite longitude was rejected.
C2_PoleRejected ==
    /\ GsqDone
    /\ lat = Fin(-(90 * One))
    /\ IsFinite(lonIn)
    /\ retNull
    /\ exception # "none"

\* The standard Maidenhead field and square of a position, as character codes:
\* longitude in 20 and 2 degree cells from -180, latitude in 10 and 1 degree
\* cells from -90.
MaidenheadPrefix(la, lo) ==
    LET x == lo.v + 180 * One
        y == la.v + 90 * One
    IN  << 65 + x \div (20 * One), 65 + y \div (10 * One),
           48 + (x % (20 * One)) \div (2 * One), 48 + (y % (10 * One)) \div One >>

\* C3: for a valid position with lon in [-180, 180) the first four characters
\* are the standard Maidenhead field and square (longitude character first in
\* each pair), and lat = 40.0, lon = -105.0 gives a locator beginning "DM79".
C3_StandardMaidenhead ==
    (GsqDone /\ AbsBelow(lat, 90) /\ IsFinite(lonIn)
        /\ lonIn.v >= -(180 * One) /\ lonIn.v < 180 * One) =>
        /\ ~retNull
        /\ Len(result) >= 4
        /\ SubSeq(result, 1, 4) = MaidenheadPrefix(lat, lonIn)
        /\ (lat = Fin(40 * One) /\ lonIn = Fin(-(105 * One))) =>
               SubSeq(result, 1, 4) = <<68, 77, 55, 57>>

\* C4: for every finite input longitude in [-540, 540] the longitude used by
\* the digit extraction lies in [-180, 180).
C4_LonNormalized ==
    (GsqDone /\ ~retNull /\ IsFinite(lonIn)
        /\ lonIn.v >= -(540 * One) /\ lonIn.v <= 540 * One) =>
        (lon.v >= -(180 * One) /\ lon.v < 180 * One)

\* C5 as stated: the buffer WSPREncodeToPCM returns holds exactly 162 x 8192
\* 16-bit samples and is 2,657,024 bytes long.
C5_PcmBufferSize ==
    (PcmDone /\ outcome = "returned" /\ ~retNull) =>
        /\ Len(sound) * WSPR_SYMBOL_LENGTH = 162 * 8192
        /\ retLen = 2657024

\* C5 as amended: the buffer WSPREncodeToPCM returns holds exactly 162 x 8192
\* 16-bit samples and is 2,654,208 bytes long, for every input.
C5_PcmBufferSizeAmended ==
    (PcmDone /\ outcome = "returned" /\ ~retNull) =>
        /\ Len(sound) * WSPR_SYMBOL_LENGTH = 162 * 8192
        /\ retLen = 2 * Len(sound) * WSPR_SYMBOL_LENGTH
        /\ retLen = 2654208

\* C5 witness: a call returned its sample array.
C5_PcmReturned ==
    /\ PcmDone
    /\ outcome = "returned"
    /\ ~retNull
    /\ retLen > 0
    /\ lsb_mod
    /\ j_offset # 0

\* (1500 + offset + s * 1.4648) Hz in units of 1 / 10000 Hz
ClaimedHz(off, s) == 15000000 + off * 10000 + s * 14648

\* x / 100 rounded to the nearest integer, halves away from zero
RoundCenti(x) == IF x >= 0 THEN (x + 50) \div 100 ELSE -((50 - x) \div 100)

\* C6 as stated: 162 entries, each round((1500 + offset + s * 1.4648) * 100)
\* for its symbol s in 0..3; symbol 0 with offset 0 gives 150000.
C6_FrequencyRounded ==
    (FreqDone /\ ~retNull) =>
        /\ Len(frequencies) = 162
        /\ \A i \in 1..Len(frequencies) :
              symbols[i] \in 0..3 =>
                  /\ frequencies[i] = RoundCenti(ClaimedHz(j_offset, symbols[i]))
                  /\ (symbols[i] = 0 /\ j_offset = 0) => frequencies[i] = 150000

\* C6 as amended: 162 entries, each (1500 + offset + s * 1.4648) * 100
\* truncated toward zero for its symbol s in 0..3; symbol 0 with offset 0
\* gives 150000.
C6_FrequencyTruncated ==
    (FreqDone /\ ~retNull) =>
        /\ Len(frequencies) = 162
        /\ \A i \in 1..Len(frequencies) :
              symbols[i] \in 0..3 =>
                  LET x == ClaimedHz(j_offset, symbols[i])
                      e == frequencies[i]
                  IN  /\ x >= 0 => (e >= 0 /\ e * 100 <= x /\ x < (e + 1) * 100)
                      /\ x < 0 => (e <= 0 /\ (e - 1) * 100 < x /\ x <= e * 100)
                      /\ (symbols[i] = 0 /\ j_offset = 0) => e = 150000

\* C6 witness: symbol 2 at offset 0, 1502.9296 Hz, was stored as 150292.
C6_FractionDropped ==
    /\ FreqDone
    /\ ~retNull
    /\ j_offset = 0
    /\ \E i \in 1..Len(frequencies) : symbols[i] = 2 /\ frequencies[i] = 150292

\* C7: in the returned array each frequency occupies 8 consecutive bytes, most
\* significant byte first.
C7_BigEndianBytes ==
    (FreqDone /\ ~retNull) =>
        /\ Len(result) = 1296
        /\ \A i \in 1..Len(frequencies) : \A k \in 1..8 :
              result[8 * (i - 1) + k] = Int64Byte(frequencies[i], 8 - k)

\* C8: in both encoders, for every encoder symbol s in 0..3 and every offset,
\* the tone produced in LSB mode for s is the tone the non-LSB computation
\* gives for 3 - s, and the inverted symbol stays in 0..3.
C8_LsbSymmetry ==
    /\ (PcmDone /\ lsb_mod /\ sound # <<>>) =>
           \A i \in 1..Len(sound) :
               encoded[i] \in 0..3 =>
                   /\ symbols[i] \in 0..3
                   /\ sound[i] = PcmFrequency(j_offset, 3 - encoded[i])
    /\ (FreqDone /\ lsb_mod /\ frequencies # <<>>) =>
           \A i \in 1..Len(frequencies) :
               encoded[i] \in 0..3 =>
                   /\ symbols[i] \in 0..3
                   /\ frequencies[i] = CastInt64(FrequencyHz(j_offset, 3 - encoded[i]))

\* C8 witness: in an LSB call encoder symbol 0 became 3 and got the tone of 3.
C8_ZeroBecameThree ==
    /\ PcmDone
    /\ lsb_mod
    /\ \E i \in 1..Len(sound) :
          encoded[i] = 0 /\ symbols[i] = 3 /\ sound[i] = PcmFrequency(j_offset, 3)

\* C9: on every exit path of WSPREncodeToPCM, WSPREncodeToFrequencies and
\* WSPRDecodeFromPcm every native buffer and string handle acquired by the call
\* has been released, and no buffer is used after a failed allocation.
C9_BuffersReleased ==
    fn \in {"WSPREncodeToPCM", "WSPREncodeToFrequencies", "WSPRDecodeFromPcm"} =>
        /\ utfLive = 0
        /\ nativeLive = 0
        /\ ~nullUse

\* C10: the amplitude of every sample is the volume constant 16383 halved,
\* 8191.
C10_AmplitudeHalved ==
    (PcmDone /\ outcome = "returned" /\ ~retNull) => (amp = volume \div 2 /\ amp = 8191)

Spec == Init /\ [][Next]_vars
====
